---- MODULE Spec2Model ----
(***************************************************************************)
(* A model of scrape-countries.py: two downloads, two line-oriented        *)
(* parsers (parse_iso3166, parse_zone1970) and one JSON dump to            *)
(* timezones.json.  Text is a sequence of one-character strings; the str   *)
(* methods the script calls (splitlines, strip, startswith, split) are     *)
(* computed character by character.                                        *)
(***************************************************************************)
EXTENDS Integers, Sequences, FiniteSets, TLC

\* ------------------------------------------------------------ characters
TAB   == "\t"
LF    == "\n"
CR    == "\r"
SP    == " "
HASH  == "#"
COMMA == ","
SLASH == "/"

\* str.strip() with no argument removes these (those of the model's alphabet).
Whitespace == {SP, TAB, LF, CR}
\* str.splitlines() breaks a line at these (those of the model's alphabet).
LineBreaks == {LF, CR}

\* ------------------------------------------------------------ str methods
\* content.splitlines(): lines without their terminators; "\r\n" is one
\* terminator; no empty last line after a final terminator.
RECURSIVE SplitLinesFrom(_, _, _, _)
SplitLinesFrom(s, i, cur, acc) ==
  IF i > Len(s) THEN (IF cur = <<>> THEN acc ELSE Append(acc, cur))
  ELSE IF s[i] = CR /\ i < Len(s) /\ s[i + 1] = LF
         THEN SplitLinesFrom(s, i + 2, <<>>, Append(acc, cur))
  ELSE IF s[i] \in LineBreaks
         THEN SplitLinesFrom(s, i + 1, <<>>, Append(acc, cur))
  ELSE SplitLinesFrom(s, i + 1, Append(cur, s[i]), acc)

splitlines(s) == SplitLinesFrom(s, 1, <<>>, <<>>)

\* s.lstrip() and s.rstrip(), composed by strip().
RECURSIVE LStrip(_)
LStrip(s) ==
  IF s # <<>> /\ Head(s) \in Whitespace THEN LStrip(Tail(s)) ELSE s

RECURSIVE RStrip(_)
RStrip(s) ==
  IF s # <<>> /\ s[Len(s)] \in Whitespace
    THEN RStrip(SubSeq(s, 1, Len(s) - 1)) ELSE s

strip(s) == RStrip(LStrip(s))

\* s.startswith(c) for a one-character prefix.
startswith(s, c) == s # <<>> /\ Head(s) = c

\* s.split(sep) for a one-character separator: always at least one field,
\* empty fields kept.
RECURSIVE SplitFrom(_, _, _, _, _)
SplitFrom(s, sep, i, cur, acc) ==
  IF i > Len(s) THEN Append(acc, cur)
  ELSE IF s[i] = sep THEN SplitFrom(s, sep, i + 1, <<>>, Append(acc, cur))
  ELSE SplitFrom(s, sep, i + 1, Append(cur, s[i]), acc)

split(s, sep) == SplitFrom(s, sep, 1, <<>>, <<>>)

\* "c in s" for a one-character c.
contains(s, c) == \E i \in 1..Len(s) : s[i] = c
\* ------------------------------------------------------------ list, dict
\* parts[i] of a Python list (0-based); IndexError when i is out of range.
IndexError == <<"IndexError">>
getitem(parts, i) == IF i < Len(parts) THEN parts[i + 1] ELSE IndexError

\* {} and d[key] = value of a Python dict: an existing key is overwritten.
EmptyDict == [k \in {} |-> <<>>]
\* As dict.setdefault would: the first value of a key is kept.
setitem_first(d, key, value) ==
  [k \in DOMAIN d \cup {key} |-> IF k \in DOMAIN d THEN d[k] ELSE value]

setitem(d, key, value) ==
  [k \in DOMAIN d \cup {key} |-> IF k = key THEN value ELSE d[k]]

\* As d.get(key) without the default would, with an empty label.
get_nodefault(d, key, default) == IF key \in DOMAIN d THEN d[key] ELSE <<>>

\* d.get(key, default)
get(d, key, default) == IF key \in DOMAIN d THEN d[key] ELSE default

\* ------------------------------------------------------------ parse_iso3166
\* line 25: blank and comment lines are skipped (after line.strip()).
Skipped(line) == line = <<>> \/ startswith(line, HASH)

\* As a test for a third field would.
IsoHasFields_three(parts) == Len(parts) >= 3

\* line 28
IsoHasFields(parts) == Len(parts) >= 2

\* One iteration of the loop of parse_iso3166 (lines 24-31) on the mapping
\* built so far: the new mapping, or raised when an index is out of range.
IsoLineStep(cmap, rawline) ==
  LET line  == strip(rawline)
      parts == split(line, TAB)
      code  == getitem(parts, 0)
      name  == getitem(parts, 1)
  IN  IF Skipped(line) \/ ~IsoHasFields(parts)
        THEN [raised |-> FALSE, country_map |-> cmap]
      ELSE IF IndexError \in {code, name}
        THEN [raised |-> TRUE, country_map |-> cmap]
      ELSE [raised |-> FALSE, country_map |-> setitem(cmap, code, name)]

RECURSIVE IsoLoop(_, _, _)
IsoLoop(lines, i, cmap) ==
  IF i > Len(lines) THEN [raised |-> FALSE, country_map |-> cmap]
  ELSE LET out == IsoLineStep(cmap, lines[i])
       IN  IF out.raised THEN out ELSE IsoLoop(lines, i + 1, out.country_map)

parse_iso3166(content) == IsoLoop(splitlines(content), 1, EmptyDict)

\* ------------------------------------------------------------ parse_zone1970
\* As a test for two fields only would.
ZoneHasFields_two(parts) == Len(parts) >= 2

\* line 43
ZoneHasFields(parts) == Len(parts) >= 3

\* As taking the segment after the first "/" would.
Region_second(tz_name) ==
  IF contains(tz_name, SLASH) THEN getitem(split(tz_name, SLASH), 1) ELSE tz_name

\* line 48
Region(tz_name) ==
  IF contains(tz_name, SLASH) THEN getitem(split(tz_name, SLASH), 0) ELSE tz_name

\* line 52
Label(cmap, country_code) == get(cmap, country_code, country_code)

\* lines 54-58: the record appended for one country code.
Entry(tz_name, label, region) ==
  [name |-> tz_name, label |-> label, country |-> region]

\* As timezones.insert(0, entry) would.
append_front(tzs, entry) == <<entry>> \o tzs

\* line 54: timezones.append(entry)
append(tzs, entry) == Append(tzs, entry)

\* lines 51-58: one record per code, appended in the order of country_codes.
RECURSIVE AppendCodes(_, _, _, _, _)
AppendCodes(tzs, country_codes, j, tz_name, cmap) ==
  IF j > Len(country_codes) THEN tzs
  ELSE AppendCodes(
         append(tzs, Entry(tz_name, Label(cmap, country_codes[j]), Region(tz_name))),
         country_codes, j + 1, tz_name, cmap)

\* One iteration of the loop of parse_zone1970 (lines 39-58) on the list
\* built so far.
ZoneLineStep(tzs, rawline, cmap) ==
  LET line    == strip(rawline)
      parts   == split(line, TAB)
      codes   == getitem(parts, 0)
      tz_name == getitem(parts, 2)
  IN  IF Skipped(line) \/ ~ZoneHasFields(parts)
        THEN [raised |-> FALSE, timezones |-> tzs]
      ELSE IF IndexError \in {codes, tz_name}
        THEN [raised |-> TRUE, timezones |-> tzs]
      ELSE [raised |-> FALSE,
            timezones |-> AppendCodes(tzs, split(codes, COMMA), 1, tz_name, cmap)]

RECURSIVE ZoneLoop(_, _, _, _)
ZoneLoop(lines, i, tzs, cmap) ==
  IF i > Len(lines) THEN [raised |-> FALSE, timezones |-> tzs]
  ELSE LET out == ZoneLineStep(tzs, lines[i], cmap)
       IN  IF out.raised THEN out ELSE ZoneLoop(lines, i + 1, out.timezones, cmap)

parse_zone1970(content, cmap) == ZoneLoop(splitlines(content), 1, <<>>, cmap)

\* ------------------------------------------------------------ json.dump
\* The text json.dump(timezones, f, indent=2) writes, as a sequence of
\* tokens: "[]" for the empty list, else "[", the objects in list order
\* separated by ",", and "]".
Punct(k) == [kind |-> k, name |-> <<>>, label |-> <<>>, country |-> <<>>]
Object(e) ==
  [kind |-> "{}", name |-> e.name, label |-> e.label, country |-> e.country]

RECURSIVE Objects(_, _)
Objects(tzs, k) ==
  IF k > Len(tzs) THEN <<>>
  ELSE (IF k > 1 THEN <<Punct(",")>> ELSE <<>>) \o <<Object(tzs[k])>>
       \o Objects(tzs, k + 1)

dump(tzs) ==
  IF tzs = <<>> THEN <<Punct("[]")>>
  ELSE <<Punct("[")>> \o Objects(tzs, 1) \o <<Punct("]")>>

\* A hole left by a write past the end of the file reads as NUL.
NUL == Punct("NUL")

\* As a descriptor opened with O_APPEND would: every write goes to the end.
WriteAt_end(f, pos, chunk) == f \o chunk

\* write(2) of chunk at offset pos of a file opened without O_APPEND.
WriteAt(f, pos, chunk) ==
  LET n == IF Len(f) > pos + Len(chunk) THEN Len(f) ELSE pos + Len(chunk)
  IN  [k \in 1..n |->
         IF k > pos /\ k <= pos + Len(chunk) THEN chunk[k - pos]
         ELSE IF k <= Len(f) THEN f[k] ELSE NUL]
\* ------------------------------------------------------------ inputs
ZONE_URL == "zone1970.tab"
ISO_URL == "iso3166.tab"

\* Most lines of a table a check draws.
MaxIsoLines == 3
MaxZoneLines == 2
\* Tokens the buffered writer holds before it writes them out.
BufSize == 2

SeqsUpTo(S, n) == UNION {[1..k -> S] : k \in 0..n}

RECURSIVE JoinLines(_, _)
JoinLines(ls, eol) ==
  IF ls = <<>> THEN <<>> ELSE Head(ls) \o eol \o JoinLines(Tail(ls), eol)

\* Lines of a country table: two names for code A, a comment, a blank line,
\* a one-field line, and lines with white space at their ends.
IsoLines ==
  { <<"A", TAB, "x">>,
    <<"A", TAB, "y">>,
    <<HASH, "A", TAB, "x">>,
    <<>>,
    <<"B">>,
    <<"B", TAB>>,
    <<SP, "B", TAB, "y">> }

\* Lines of a zone table: two codes and a two-slash name, one code and a
\* name without slash, a two-field line, a comment, a blank line, and lines
\* with white space at their ends.
ZoneLines ==
  { <<"A", COMMA, "C", TAB, "q", TAB, "E", SLASH, "P", SLASH, "U">>,
    <<"B", TAB, "q", TAB, "U">>,
    <<"A", TAB, "q">>,
    <<HASH, "A", TAB, "q", TAB, "U">>,
    <<>>,
    <<"A", TAB, "q", TAB>>,
    <<SP, "B", COMMA, "A", TAB, "q", TAB, "U", TAB, "r">> }

\* Tables of up to n lines, each line ended by "\n"; and one-line tables
\* ended by "\r\n" or by nothing.
Tables(Lines, n) ==
  {JoinLines(ls, <<LF>>) : ls \in SeqsUpTo(Lines, n)}
    \cup {l \o <<CR, LF>> : l \in Lines} \cup Lines

IsoContents == Tables(IsoLines, MaxIsoLines)
ZoneContents == Tables(ZoneLines, MaxZoneLines)

\* What the two URLs serve while whole runs are checked.
ServedIso ==
  { JoinLines(<< <<"A", TAB, "x">>, <<"B">>, <<"A", TAB, "y">> >>, <<LF>>),
    JoinLines(<< <<HASH, "A", TAB, "x">>, <<SP, "B", TAB, "y">> >>, <<LF>>) }
ServedZone ==
  { JoinLines(<< <<"A", COMMA, "C", TAB, "q", TAB, "E", SLASH, "P", SLASH, "U">>,
                 <<"A", TAB, "q">>,
                 <<"B", TAB, "q", TAB, "U">> >>, <<LF>>),
    JoinLines(<< <<"B", TAB, "q", TAB, "U">> >>, <<LF>>) }

\* timezones.json before any run: absent or empty, or left by an earlier run.
Old == Punct("old")
OldFiles == {<<>>, <<Old, Old, Old, Old, Old>>}

\* ------------------------------------------------------------ state
Runs == {1, 2}

VARIABLES
  pc,            \* per run: the statement of __main__ it is at
  error,         \* per run: the exception that ended it, or "none"
  requests,      \* the requests sent so far, <<run, url>> in order
  zone_content,  \* per run
  iso_content,   \* per run
  country_map,   \* per run: the dict parse_iso3166 builds and returns
  timezones,     \* per run: the list parse_zone1970 builds and returns
  i,             \* per run: index (from 1) of the next line of the running loop
  pos,           \* per run: offset of its descriptor of timezones.json
  file,          \* content of timezones.json
  last_writer,   \* the run whose write reached the file last, 0 if none
  overlapped     \* a run opened the file while another held it open

vars == <<pc, error, requests, zone_content, iso_content, country_map,
          timezones, i, pos, file, last_writer, overlapped>>

Fresh ==
  /\ error = [r \in Runs |-> "none"]
  /\ country_map = [r \in Runs |-> EmptyDict]
  /\ timezones = [r \in Runs |-> <<>>]
  /\ i = [r \in Runs |-> 1]
  /\ pos = [r \in Runs |-> 0]
  /\ file \in OldFiles
  /\ last_writer = 0
  /\ overlapped = FALSE

Init ==
  /\ pc = [r \in Runs |-> "fetch_zone"]
  /\ requests = <<>>
  /\ zone_content = [r \in Runs |-> <<>>]
  /\ iso_content = [r \in Runs |-> <<>>]
  /\ Fresh

\* ------------------------------------------------------------ download_file
UrlAt(p) == IF p \in {"fetch_zone", "recv_zone"} THEN ZONE_URL ELSE ISO_URL

\* lines 65, 68 and 16: urlopen(url) sends the request.
Request(r) ==
  /\ pc[r] \in {"fetch_zone", "fetch_iso"}
  /\ requests' = Append(requests, <<r, UrlAt(pc[r])>>)
  /\ pc' = [pc EXCEPT ![r] = IF pc[r] = "fetch_zone" THEN "recv_zone" ELSE "recv_iso"]
  /\ UNCHANGED <<error, zone_content, iso_content, country_map, timezones,
                 i, pos, file, last_writer, overlapped>>

\* lines 17 and 65: the body of zone1970.tab arrives and is decoded.
RecvZone(r, Served) ==
  /\ pc[r] = "recv_zone"
  /\ \E c \in Served : zone_content' = [zone_content EXCEPT ![r] = c]
  /\ pc' = [pc EXCEPT ![r] = "fetch_iso"]
  /\ UNCHANGED <<error, requests, iso_content, country_map, timezones,
                 i, pos, file, last_writer, overlapped>>

\* lines 17 and 68: the body of iso3166.tab arrives and is decoded.
RecvIso(r, Served) ==
  /\ pc[r] = "recv_iso"
  /\ \E c \in Served : iso_content' = [iso_content EXCEPT ![r] = c]
  /\ pc' = [pc EXCEPT ![r] = "parse_iso"]
  /\ UNCHANGED <<error, requests, zone_content, country_map, timezones,
                 i, pos, file, last_writer, overlapped>>

\* The exception leaves download_file and __main__: nothing catches it.
Raise(r, exc) ==
  /\ pc' = [pc EXCEPT ![r] = "failed"]
  /\ error' = [error EXCEPT ![r] = exc]

\* As a handler that swallows the exception and asks again would.
FetchFail_retry(r) ==
  /\ pc[r] \in {"recv_zone", "recv_iso"}
  /\ error' = [error EXCEPT ![r] = "URLError"]
  /\ pc' = [pc EXCEPT ![r] = IF pc[r] = "recv_zone" THEN "fetch_zone" ELSE "fetch_iso"]
  /\ UNCHANGED <<requests, zone_content, iso_content, country_map, timezones,
                 i, pos, file, last_writer, overlapped>>

\* line 16: the resource is unreachable or answers with an error status.
FetchFail(r) ==
  /\ pc[r] \in {"recv_zone", "recv_iso"}
  /\ Raise(r, "URLError")
  /\ UNCHANGED <<requests, zone_content, iso_content, country_map, timezones,
                 i, pos, file, last_writer, overlapped>>

\* ------------------------------------------------------------ the parsers
\* line 72, one iteration of the loop of parse_iso3166.
ParseIsoLine(r) ==
  /\ pc[r] = "parse_iso"
  /\ i[r] <= Len(splitlines(iso_content[r]))
  /\ LET out == IsoLineStep(country_map[r], splitlines(iso_content[r])[i[r]])
     IN  IF out.raised
           THEN Raise(r, "IndexError") /\ UNCHANGED <<country_map, i>>
           ELSE /\ country_map' = [country_map EXCEPT ![r] = out.country_map]
                /\ i' = [i EXCEPT ![r] = i[r] + 1]
                /\ UNCHANGED <<pc, error>>
  /\ UNCHANGED <<requests, zone_content, iso_content, timezones, pos, file,
                 last_writer, overlapped>>

\* As a loop that stops one line early would.
IsoDone_early(r) == i[r] >= Len(splitlines(iso_content[r]))

\* lines 32 and 72: the loop is over, parse_iso3166 returns country_map.
IsoDone(r) == i[r] > Len(splitlines(iso_content[r]))

ParseIsoReturn(r) ==
  /\ pc[r] = "parse_iso"
  /\ IsoDone(r)
  /\ pc' = [pc EXCEPT ![r] = "parse_zone"]
  /\ i' = [i EXCEPT ![r] = 1]
  /\ UNCHANGED <<error, requests, zone_content, iso_content, country_map,
                 timezones, pos, file, last_writer, overlapped>>

\* line 73, one iteration of the loop of parse_zone1970.
ParseZoneLine(r) ==
  /\ pc[r] = "parse_zone"
  /\ i[r] <= Len(splitlines(zone_content[r]))
  /\ LET out == ZoneLineStep(timezones[r], splitlines(zone_content[r])[i[r]],
                             country_map[r])
     IN  IF out.raised
           THEN Raise(r, "IndexError") /\ UNCHANGED <<timezones, i>>
           ELSE /\ timezones' = [timezones EXCEPT ![r] = out.timezones]
                /\ i' = [i EXCEPT ![r] = i[r] + 1]
                /\ UNCHANGED <<pc, error>>
  /\ UNCHANGED <<requests, zone_content, iso_content, country_map, pos, file,
                 last_writer, overlapped>>

\* lines 60 and 73: the loop is over, parse_zone1970 returns timezones.
ZoneDone(r) == i[r] > Len(splitlines(zone_content[r]))

ParseZoneReturn(r) ==
  /\ pc[r] = "parse_zone"
  /\ ZoneDone(r)
  /\ pc' = [pc EXCEPT ![r] = "open"]
  /\ UNCHANGED <<error, requests, zone_content, iso_content, country_map,
                 timezones, i, pos, file, last_writer, overlapped>>

\* ------------------------------------------------------------ the output
\* As mode "r+" would: the old content stays.
Truncated_keep(f) == f

\* line 77: mode "w" creates the file or truncates it to length 0.
Truncated(f) == <<>>

Open(r) ==
  /\ pc[r] = "open"
  /\ file' = Truncated(file)
  /\ pos' = [pos EXCEPT ![r] = 0]
  /\ overlapped' = (overlapped \/ \E o \in Runs \ {r} : pc[o] = "dump")
  /\ pc' = [pc EXCEPT ![r] = "dump"]
  /\ UNCHANGED <<error, requests, zone_content, iso_content, country_map,
                 timezones, i, last_writer>>

\* line 77: open fails (no permission, no such directory); the file is as
\* it was.
OpenFail(r) ==
  /\ pc[r] = "open"
  /\ Raise(r, "OSError")
  /\ UNCHANGED <<requests, zone_content, iso_content, country_map, timezones,
                 i, pos, file, last_writer, overlapped>>

\* The next tokens the buffered writer writes out: at most BufSize of them.
Chunk(text, p) ==
  SubSeq(text, p + 1, IF p + BufSize < Len(text) THEN p + BufSize ELSE Len(text))

\* line 78: json.dump writes through the buffer; each write goes to the
\* descriptor's own offset.
Flush(r) ==
  /\ pc[r] = "dump"
  /\ pos[r] < Len(dump(timezones[r]))
  /\ LET chunk == Chunk(dump(timezones[r]), pos[r])
     IN  /\ file' = WriteAt(file, pos[r], chunk)
         /\ pos' = [pos EXCEPT ![r] = pos[r] + Len(chunk)]
  /\ last_writer' = r
  /\ UNCHANGED <<pc, error, requests, zone_content, iso_content, country_map,
                 timezones, i, overlapped>>

\* lines 77-80: everything is written, the with block closes the file and
\* the script ends with status 0.
Close(r) ==
  /\ pc[r] = "dump"
  /\ pos[r] = Len(dump(timezones[r]))
  /\ pc' = [pc EXCEPT ![r] = "done"]
  /\ UNCHANGED <<error, requests, zone_content, iso_content, country_map,
                 timezones, i, pos, file, last_writer, overlapped>>

\* ------------------------------------------------------------ specifications
\* Two runs of the script, interleaved in every way, on one timezones.json.
Next ==
  \E r \in Runs :
    \/ Request(r)
    \/ RecvZone(r, ServedZone)
    \/ RecvIso(r, ServedIso)
    \/ FetchFail(r)
    \/ ParseIsoLine(r)
    \/ ParseIsoReturn(r)
    \/ ParseZoneLine(r)
    \/ ParseZoneReturn(r)
    \/ Open(r)
    \/ OpenFail(r)
    \/ Flush(r)
    \/ Close(r)

Spec == Init /\ [][Next]_vars

\* parse_iso3166 on every table of IsoContents: run 1 has fetched both
\* tables and is about to parse; run 2 has not started.
InitIso ==
  /\ pc = [r \in Runs |-> IF r = 1 THEN "parse_iso" ELSE "fetch_zone"]
  /\ requests = << <<1, ZONE_URL>>, <<1, ISO_URL>> >>
  /\ \E z \in ServedZone : zone_content = [r \in Runs |-> IF r = 1 THEN z ELSE <<>>]
  /\ \E c \in IsoContents : iso_content = [r \in Runs |-> IF r = 1 THEN c ELSE <<>>]
  /\ Fresh

NextIso == ParseIsoLine(1) \/ ParseIsoReturn(1)

SpecIso == InitIso /\ [][NextIso]_vars

\* parse_zone1970 on every table of ZoneContents and every mapping that
\* parse_iso3166 returns for a table of one line, up to the written file.
InitZone ==
  /\ pc = [r \in Runs |-> IF r = 1 THEN "parse_zone" ELSE "fetch_zone"]
  /\ requests = << <<1, ZONE_URL>>, <<1, ISO_URL>> >>
  /\ \E z \in ZoneContents : zone_content = [r \in Runs |-> IF r = 1 THEN z ELSE <<>>]
  /\ \E c \in Tables(IsoLines, 1) :
       /\ iso_content = [r \in Runs |-> IF r = 1 THEN c ELSE <<>>]
       /\ error = [r \in Runs |-> "none"]
       /\ country_map = [r \in Runs |->
            IF r = 1 THEN parse_iso3166(c).country_map ELSE EmptyDict]
  /\ timezones = [r \in Runs |-> <<>>]
  /\ i = [r \in Runs |-> 1]
  /\ pos = [r \in Runs |-> 0]
  /\ file \in OldFiles
  /\ last_writer = 0
  /\ overlapped = FALSE

NextZone ==
  \/ ParseZoneLine(1)
  \/ ParseZoneReturn(1)
  \/ Open(1)
  \/ Flush(1)
  \/ Close(1)

SpecZone == InitZone /\ [][NextZone]_vars
\* ------------------------------------------------------------ vocabulary of the claims
NumFields(l) == Len(split(l, TAB))
Field(l, n) == split(l, TAB)[n + 1]

\* A line as the table has it: not blank, not a comment, at least n
\* tab-separated fields.
EntryLine(l, n) == strip(l) # <<>> /\ ~startswith(l, HASH) /\ NumFields(l) >= n

\* The part of s before its first "/", all of s when it has none.
BeforeSlash(s) ==
  IF \E k \in 1..Len(s) : s[k] = SLASH
    THEN SubSeq(s, 1, (CHOOSE k \in 1..Len(s) :
                         s[k] = SLASH /\ \A m \in 1..(k - 1) : s[m] # SLASH) - 1)
    ELSE s

IsoTable(r) == splitlines(iso_content[r])
ZoneTable(r) == splitlines(zone_content[r])

\* The rows of `lines` that give an entry for `code`, in table order.
RowsFor(lines, code) ==
  {k \in 1..Len(lines) : EntryLine(lines[k], 2) /\ Field(lines[k], 0) = code}
Last(S) == CHOOSE k \in S : \A m \in S : m <= k

Stripped(lines) == [k \in 1..Len(lines) |-> strip(lines[k])]

\* The label of a code: its name in the mapping, the code when it has none.
Resolved(cmap, code) == IF code \in DOMAIN cmap THEN cmap[code] ELSE code

\* Run r takes one iteration of the loop of parse_zone1970, on ZoneTable(r)[i[r]].
ZoneStep(r) == pc[r] = "parse_zone" /\ i'[r] = i[r] + 1
Added(r) == SubSeq(timezones'[r], Len(timezones[r]) + 1, Len(timezones'[r]))

\* ------------------------------------------------------------ C1
\* C1 as stated: once parse_iso3166 has returned, every line of the text that
\* is not blank, not a comment and has at least 2 tab-separated fields has its
\* field 0 as a key of the mapping with its field 1 as the value, and no other
\* line gives a key.  (Fails: the fields are those of the stripped line, and a
\* later line with the same key overwrites the value.)
C1_EveryLineMapped ==
  pc[1] = "parse_zone" =>
    LET lines == IsoTable(1) IN
    /\ \A k \in 1..Len(lines) :
         EntryLine(lines[k], 2) =>
           /\ Field(lines[k], 0) \in DOMAIN country_map[1]
           /\ country_map[1][Field(lines[k], 0)] = Field(lines[k], 1)
    /\ \A code \in DOMAIN country_map[1] : RowsFor(lines, code) # {}

\* C1 amended: once parse_iso3166 has returned, every line whose stripped form
\* is not empty, does not start with "#" and has at least 2 tab-separated
\* fields has field 0 of the stripped line as a key of the mapping, the value
\* being field 1 of the last such line with that key; the keys are exactly
\* those, so blank and comment lines give no entry.
C1_StrippedLastMapped ==
  pc[1] = "parse_zone" =>
    LET lines == Stripped(IsoTable(1)) IN
    /\ \A k \in 1..Len(lines) :
         EntryLine(lines[k], 2) =>
           /\ Field(lines[k], 0) \in DOMAIN country_map[1]
           /\ country_map[1][Field(lines[k], 0)] =
                Field(lines[Last(RowsFor(lines, Field(lines[k], 0)))], 1)
    /\ \A code \in DOMAIN country_map[1] : RowsFor(lines, code) # {}

\* parse_iso3166 has returned a mapping with an entry from a line that had
\* white space to strip, for a table that also has a comment and a blank line.
C1_Witness ==
  /\ pc[1] = "parse_zone"
  /\ LET lines == IsoTable(1) IN
     /\ \E k \in 1..Len(lines) :
          /\ EntryLine(strip(lines[k]), 2) /\ strip(lines[k]) # lines[k]
          /\ Field(strip(lines[k]), 0) \in DOMAIN country_map[1]
     /\ \E k \in 1..Len(lines) : startswith(lines[k], HASH)
     /\ \E k \in 1..Len(lines) : lines[k] = <<>>

\* ------------------------------------------------------------ C2
\* What C2 promises of the iteration on line l, whose field 0 holds K codes.
KRecords(r, l) ==
  /\ Len(timezones'[r]) = Len(timezones[r]) + Len(split(Field(l, 0), COMMA))
  /\ \A j \in 1..Len(Added(r)) :
       /\ Added(r)[j].name = Field(l, 2)
       /\ Added(r)[j].country = BeforeSlash(Field(l, 2))

\* C2 as stated: the iteration on a non-comment, non-blank line with at least
\* 3 tab-separated fields and K codes in field 0 appends exactly K records,
\* each with name = field 2 and country = field 2 up to its first "/".
\* (Fails: the fields are those of the stripped line.)
C2_KRecordsPerLine ==
  [][\A r \in Runs :
       ZoneStep(r) /\ EntryLine(ZoneTable(r)[i[r]], 3)
         => KRecords(r, ZoneTable(r)[i[r]])]_vars

\* C2 amended: the iteration on a line whose stripped form is not empty, does
\* not start with "#" and has at least 3 tab-separated fields, with K codes
\* in its field 0, appends exactly K records, each with name = field 2 of the
\* stripped line and country = that field up to its first "/" (all of it
\* when it has none).
C2_KRecordsPerStrippedLine ==
  [][\A r \in Runs :
       ZoneStep(r) /\ EntryLine(strip(ZoneTable(r)[i[r]]), 3)
         => KRecords(r, strip(ZoneTable(r)[i[r]]))]_vars

\* The loop has just passed a line of two codes whose name has a "/", and one
\* of one code whose name has none: three records.
C2_Witness ==
  /\ pc[1] = "parse_zone" /\ i[1] = 3
  /\ LET l1 == strip(ZoneTable(1)[1])
         l2 == strip(ZoneTable(1)[2]) IN
     /\ EntryLine(l1, 3) /\ Len(split(Field(l1, 0), COMMA)) = 2
     /\ contains(Field(l1, 2), SLASH)
     /\ EntryLine(l2, 3) /\ Len(split(Field(l2, 0), COMMA)) = 1
     /\ ~contains(Field(l2, 2), SLASH)
  /\ Len(timezones[1]) = 3
  /\ timezones[1][3].country = timezones[1][3].name

IsPrefix(s, t) == Len(s) <= Len(t) /\ SubSeq(t, 1, Len(s)) = s

\* C4: parse_zone1970 takes the rows in table order and only ever appends, so
\* the records of an earlier row stay before those of a later row; the
\* records of one row are in the order of the codes of its field 0; and the
\* file a finished run leaves holds the records in the order of the list.
C4_RowThenCodeOrder ==
  /\ [][\A r \in Runs :
          /\ IsPrefix(timezones[r], timezones'[r])
          /\ pc[r] = "parse_zone" /\ pc'[r] = "parse_zone" => i'[r] \in {i[r], i[r] + 1}
          /\ ZoneStep(r) /\ EntryLine(strip(ZoneTable(r)[i[r]]), 3) =>
               LET codes == split(Field(strip(ZoneTable(r)[i[r]]), 0), COMMA) IN
               /\ Len(Added(r)) = Len(codes)
               /\ \A j \in 1..Len(codes) :
                    Added(r)[j].label = Resolved(country_map[r], codes[j])
       ]_vars
  /\ [](pc[1] = "done" =>
          /\ Len(file) = 2 * Len(timezones[1]) + 1
          /\ \A k \in 1..Len(timezones[1]) :
               /\ file[2 * k].name = timezones[1][k].name
               /\ file[2 * k].label = timezones[1][k].label
               /\ file[2 * k].country = timezones[1][k].country)

\* The run is over for a table of two rows that both gave records, the first
\* row two of them with different labels: the file has them in that order.
C4_Witness ==
  /\ pc[1] = "done"
  /\ Len(ZoneTable(1)) = 2
  /\ EntryLine(strip(ZoneTable(1)[1]), 3) /\ EntryLine(strip(ZoneTable(1)[2]), 3)
  /\ Len(timezones[1]) = 3
  /\ timezones[1][1].label # timezones[1][2].label
  /\ timezones[1][1].name # timezones[1][3].name
  /\ file[2].label = timezones[1][1].label
  /\ file[6].name = timezones[1][3].name
\* ------------------------------------------------------------ C5
AtLeast2(l) == NumFields(l) >= 2
AtLeast3(l) == NumFields(l) >= 3

\* The first n lines of a table without those of fewer than 2 (3) fields.
IsoWithoutShort(lines, n) == JoinLines(SelectSeq(SubSeq(lines, 1, n), AtLeast2), <<LF>>)
ZoneWithoutShort(lines, n) == JoinLines(SelectSeq(SubSeq(lines, 1, n), AtLeast3), <<LF>>)

Parsed(r) ==
  IF pc[r] = "parse_zone" THEN i[r] - 1
  ELSE IF pc[r] \in {"open", "dump", "done"} THEN Len(ZoneTable(r))
  ELSE 0

\* C5: no run ends by an IndexError; the mapping a run has built from the
\* lines it has passed is the one parse_iso3166 returns for those lines
\* without the ones of fewer than 2 tab-separated fields, and its record list
\* the one parse_zone1970 returns for the lines passed without the ones of
\* fewer than 3 fields: a short line adds nothing and changes nothing of
\* what the other lines give.
C5_ShortLinesSkipped ==
  \A r \in Runs :
    /\ error[r] # "IndexError"
    /\ pc[r] = "parse_iso" =>
         country_map[r] =
           parse_iso3166(IsoWithoutShort(IsoTable(r), i[r] - 1)).country_map
    /\ pc[r] \in {"parse_zone", "open", "dump", "done"} =>
         /\ country_map[r] =
              parse_iso3166(IsoWithoutShort(IsoTable(r), Len(IsoTable(r)))).country_map
         /\ timezones[r] =
              parse_zone1970(ZoneWithoutShort(ZoneTable(r), Parsed(r)),
                             country_map[r]).timezones

\* A run has finished on a country table and a zone table that each have a
\* short line between two lines that give an entry.
C5_Witness ==
  \E r \in Runs :
    /\ pc[r] = "done"
    /\ Len(IsoTable(r)) = 3 /\ ~AtLeast2(IsoTable(r)[2])
    /\ EntryLine(IsoTable(r)[1], 2) /\ EntryLine(IsoTable(r)[3], 2)
    /\ Len(ZoneTable(r)) = 3 /\ ~AtLeast3(ZoneTable(r)[2])
    /\ strip(ZoneTable(r)[2]) # <<>>
    /\ EntryLine(ZoneTable(r)[1], 3) /\ EntryLine(ZoneTable(r)[3], 3)
    /\ Len(timezones[r]) = 3

\* ------------------------------------------------------------ C6
Count(r, url) == Cardinality({k \in 1..Len(requests) : requests[k] = <<r, url>>})

\* The URLs run r has requested, in order.
Requested(r) ==
  LET Mine(q) == q[1] = r
      mine == SelectSeq(requests, Mine)
  IN  [k \in 1..Len(mine) |-> mine[k][2]]

\* C6: a run whose download failed is in the failed state and stays there;
\* it requested no URL twice, the failed request is its last, it has parsed
\* nothing and has not opened or written the file; it sends no request
\* afterwards, and the file changes only by a step of another run that is
\* at the open or the dump; when every run failed so, the file is as it was
\* before the runs.
C6_FetchFailureEndsRun ==
  /\ [](\A r \in Runs :
          error[r] = "URLError" =>
            /\ pc[r] = "failed"
            /\ Count(r, ZONE_URL) = 1 /\ Count(r, ISO_URL) <= 1
            /\ Count(r, ISO_URL) = 0 <=> zone_content[r] = <<>>
            /\ iso_content[r] = <<>>
            /\ country_map[r] = EmptyDict /\ timezones[r] = <<>> /\ i[r] = 1
            /\ pos[r] = 0 /\ last_writer # r)
  /\ []((\A r \in Runs : error[r] = "URLError") => file \in OldFiles /\ last_writer = 0)
  /\ [][\A r \in Runs :
          error[r] = "URLError" =>
            /\ pc'[r] = "failed" /\ error'[r] = "URLError"
            /\ Requested(r)' = Requested(r)
            /\ file' # file => \E o \in Runs \ {r} : pc[o] \in {"open", "dump"}]_vars

\* One run failed at its second download, after the first had succeeded; the
\* other run failed at its first.
C6_Witness ==
  /\ error[1] = "URLError" /\ zone_content[1] # <<>>
  /\ error[2] = "URLError" /\ zone_content[2] = <<>>
  /\ Len(file) = 5

\* ------------------------------------------------------------ C7
\* C7: a run requests zone1970.tab, then iso3166.tab, the second only when
\* the first download is complete; it parses only when both are complete;
\* the zone parser starts, and records exist, only when the mapping is
\* the whole of what parse_iso3166 returns for the country table; the file is
\* opened or written by a run only when its list is the whole of what
\* parse_zone1970 returns.
C7_StageOrder ==
  \A r \in Runs :
    /\ Requested(r) \in {<<>>, <<ZONE_URL>>, <<ZONE_URL, ISO_URL>>}
    /\ Count(r, ISO_URL) = 1 =>
         pc[r] \notin {"fetch_zone", "recv_zone"} /\ zone_content[r] \in ServedZone
    /\ (country_map[r] # EmptyDict \/ i[r] > 1 \/ timezones[r] # <<>>
        \/ pc[r] \in {"parse_iso", "parse_zone", "open", "dump", "done"}) =>
         /\ Requested(r) = <<ZONE_URL, ISO_URL>>
         /\ zone_content[r] \in ServedZone /\ iso_content[r] \in ServedIso
    /\ (pc[r] \in {"parse_zone", "open", "dump", "done"} \/ timezones[r] # <<>>) =>
         country_map[r] = parse_iso3166(iso_content[r]).country_map
    /\ (pc[r] \in {"dump", "done"} \/ pos[r] > 0 \/ last_writer = r) =>
         timezones[r] = parse_zone1970(zone_content[r], country_map[r]).timezones

\* A run is writing the file: it has a mapping, records, and part of the
\* text is out.
C7_Witness ==
  \E r \in Runs :
    /\ pc[r] = "dump" /\ pos[r] > 0 /\ pos[r] < Len(dump(timezones[r]))
    /\ last_writer = r
    /\ country_map[r] # EmptyDict /\ Len(timezones[r]) = 3

\* ------------------------------------------------------------ C8
Ended == \A r \in Runs : pc[r] \in {"done", "failed"}

\* C8 as stated: when the runs have ended, the file holds the complete text
\* of the list of the run that wrote last.  (Fails: a run truncates the file
\* only when it opens it, so the text of the last writer can be followed by
\* the rest of a longer text written in between.)
C8_LastWriterWins ==
  Ended /\ last_writer # 0 => file = dump(timezones[last_writer])

\* C8 amended: when the runs have ended and none opened the file while
\* another held it open, the file holds the complete text of the list of the
\* run that wrote last.
C8_LastWriterWinsApart ==
  Ended /\ last_writer # 0 /\ ~overlapped => file = dump(timezones[last_writer])

\* Both runs finished one after the other, the second with the shorter list,
\* over a file that was longer than either text.
C8_Witness ==
  /\ pc[1] = "done" /\ pc[2] = "done" /\ ~overlapped
  /\ last_writer = 2
  /\ Len(timezones[1]) = 3 /\ Len(timezones[2]) = 1
  /\ file = dump(timezones[2])

\* ------------------------------------------------------------ C9
\* C9: two finished runs that fetched the same country table and the same
\* zone table have equal record lists, and the file holds the text of that
\* list, whatever the file held before and however the runs interleaved.
C9_SameInputSameOutput ==
  \A r1, r2 \in Runs :
    /\ r1 # r2 /\ pc[r1] = "done" /\ pc[r2] = "done"
    /\ zone_content[r1] = zone_content[r2] /\ iso_content[r1] = iso_content[r2]
    => /\ timezones[r1] = timezones[r2]
       /\ file = dump(timezones[r1])

\* Both runs finished on the same tables, one having opened the file while
\* the other was writing it.
C9_Witness ==
  /\ pc[1] = "done" /\ pc[2] = "done" /\ overlapped
  /\ zone_content[1] = zone_content[2] /\ iso_content[1] = iso_content[2]
  /\ Len(timezones[1]) = 3
  /\ timezones[1][1].label # timezones[1][1].name

\* ------------------------------------------------------------ C10
\* C10: once parse_iso3166 has returned, the value of a code that several
\* lines give (lines that pass the parser's tests, fields as the parser
\* splits them) is field 1 of the last of them, and every record
\* parse_zone1970 appends for that code has that value as label.
C10_LastNameWins ==
  /\ [](\A r \in Runs :
          pc[r] \in {"parse_zone", "open", "dump", "done"} =>
            LET lines == Stripped(IsoTable(r)) IN
            \A k \in 1..Len(lines) :
              EntryLine(lines[k], 2) =>
                country_map[r][Field(lines[k], 0)] =
                  Field(lines[Last(RowsFor(lines, Field(lines[k], 0)))], 1))
  /\ [][\A r \in Runs :
          ZoneStep(r) /\ EntryLine(strip(ZoneTable(r)[i[r]]), 3) =>
            LET lines == Stripped(IsoTable(r))
                codes == split(Field(strip(ZoneTable(r)[i[r]]), 0), COMMA) IN
            /\ Len(Added(r)) = Len(codes)
            /\ \A j \in 1..Len(codes) :
                 RowsFor(lines, codes[j]) # {} =>
                   Added(r)[j].label =
                     Field(lines[Last(RowsFor(lines, codes[j]))], 1)]_vars

\* A run has parsed a country table with two names for one code and a zone
\* row listing that code: the record has the second name.
C10_Witness ==
  \E r \in Runs :
    /\ pc[r] = "open"
    /\ LET lines == Stripped(IsoTable(r)) IN
       \E k1, k2 \in 1..Len(lines) :
         /\ k1 < k2 /\ EntryLine(lines[k1], 2) /\ EntryLine(lines[k2], 2)
         /\ Field(lines[k1], 0) = Field(lines[k2], 0)
         /\ Field(lines[k1], 1) # Field(lines[k2], 1)
         /\ Field(strip(ZoneTable(r)[1]), 0)[1] = Field(lines[k1], 0)[1]
         /\ timezones[r] # <<>>
         /\ timezones[r][1].label = Field(lines[k2], 1)
====
